---- MODULE Spec2Model ----
(***************************************************************************)
(* The sequential character-slot decoder UserDataX.read of ER Save Fixer,  *)
(* in its two versions: er_parser/user_data_x.py (read(f, is_ps,           *)
(* slot_start_offset, slot_size)) and user_data_x.py (read(f, is_ps)).     *)
(*                                                                         *)
(* The stream f is a BytesIO: a byte buffer of data.size bytes and a       *)
(* position pos.  Only the bytes the decoder itself interprets are kept    *)
(* as numbers (the four version bytes, the region count); every other      *)
(* byte is identified by its offset in the stream, so a field's value is   *)
(* the range <<lo, hi>> of stream offsets it was read from.                *)
(***************************************************************************)
EXTENDS Integers, Sequences, FiniteSets, TLC

VARIABLES
    decoder,            \* which UserDataX.read runs: "er_parser" or "legacy"
    data,               \* the stream: [size, verBytes, regionCount, content]
    pos,                \* f.tell()
    slot_size,          \* the slot_size argument (er_parser only)
    data_start_offset,  \* f.tell() at entry
    pc,                 \* index of the next statement of read() in the program
    status,             \* "reading", "returned", "raised", "encoded"
    obj,                \* the UserDataX under construction
    debug_pos,          \* the position saved by a debug look-ahead
    warned,             \* the "beyond slot boundary" warning was printed
    out,                \* what encode produced for the returned slot
    heap,               \* the RideGameData objects, by reference
    other,              \* the slot another call of read() returned, or None
    alone,              \* each slot's mount had only its own calls run
    called,             \* the latest method call on a slot and its result
    args                \* read()'s other arguments: [is_ps, slot_start_offset]

vars == <<decoder, data, pos, slot_size, data_start_offset, pc, status, obj,
          debug_pos, warned, out, heap, other, alone, called, args>>

----------------------------------------------------------------------------
(* Program constants *)

SLOT_SIZE == 2621440
HEADER_SIZE == 768
CHECKSUM_SIZE == 16
EVENT_FLAGS_SIZE == 1833375
GAITEM_COUNT_OLD == 5118
GAITEM_COUNT_NEW == 5120
SP_EFFECT_COUNT == 13
HELD_COMMON == 2688
HELD_KEY == 384
STORAGE_COMMON == 1920
STORAGE_KEY == 128
DEBUG_PEEK == 32

(* Bounds of the model *)

\* A buffer is cut this many bytes into (0: right before) each field.
MaxDelta == 1
\* The region counts a slot declares: 0 .. MaxRegions, and one corrupt count.
MaxRegions == 1

None == <<>>

Min(a, b) == IF a <= b THEN a ELSE b

----------------------------------------------------------------------------
(* Integer conversions of struct.unpack / struct.pack *)

\* struct.unpack("<I", b)[0]
U32LE(b) == b[1] + 256 * b[2] + 65536 * b[3] + 16777216 * b[4]

\* struct.pack("<I", v)
PackU32LE(v) ==
    <<v % 256, (v \div 256) % 256, (v \div 65536) % 256, (v \div 16777216) % 256>>

----------------------------------------------------------------------------
(* Version dispatch *)

\* Mutant: the gaitem boundary compared with < instead of <=.
GaitemCountStrict(v) == IF v < 81 THEN GAITEM_COUNT_OLD ELSE GAITEM_COUNT_NEW

\* gaitem_count = 0x13FE if obj.version <= 81 else 0x1400
GaitemCount(v) == IF v <= 81 THEN GAITEM_COUNT_OLD ELSE GAITEM_COUNT_NEW

\* gesture_count = 64 if obj.version <= 200 else 128
GestureCount(v) == IF v <= 200 THEN 64 ELSE 128

\* Gestures.read(f) of the older decoder takes no count: it reads the count
\* the format had before the newer decoder's version split.
LegacyGestureCount(v) == 64

\* Mutant: the temp spawn point gated one version late.
HasTempSpawnPointLate(v) == v > 65

\* if obj.version >= 65: temp_spawn_point_entity_id
HasTempSpawnPoint(v) == v >= 65

\* Mutant: the extra byte gated together with the temp spawn point.
HasGameManExtraByteEarly(v) == v >= 65

\* if obj.version >= 66: game_man_0xcb3
HasGameManExtraByte(v) == v >= 66

----------------------------------------------------------------------------
(* The sub-records read through their own read(f): each consumes a fixed   *)
(* number of bytes and raises when the stream ends before that.            *)

RecordWidth ==
    [MapId |-> 4, Gaitem |-> 8, PlayerGameData |-> 432, SPEffect |-> 16,
     EquippedItemsEquipIndex |-> 88, ActiveWeaponSlotsAndArmStyle |-> 28,
     EquippedItemsItemIds |-> 88, EquippedItemsGaitemHandles |-> 88,
     EquippedSpells |-> 116, EquippedItems |-> 140, EquippedGestures |-> 24,
     AcquiredProjectiles |-> 2052, EquippedArmamentsAndItems |-> 156,
     EquippedPhysics |-> 12, FaceData |-> 303, Gesture |-> 4, Region |-> 4,
     RideGameData |-> 40, BloodStain |-> 68, MenuSaveLoad |-> 4104,
     TrophyEquipData |-> 52, GaitemGameData |-> 112008, TutorialData |-> 1032,
     FieldArea |-> 16, WorldArea |-> 16, WorldGeomMan |-> 16, RendMan |-> 16,
     PlayerCoordinates |-> 61, NetMan |-> 131076, WorldAreaWeather |-> 12,
     WorldAreaTime |-> 12, BaseVersion |-> 16, PS5Activity |-> 32, DLC |-> 50,
     PlayerGameDataHash |-> 128, InventoryItem |-> 12]

\* Inventory.read(f, common, key): a count and the full capacity of each
\* of the two item arrays, then two counters.
InventoryWidth(common, key) ==
    4 + common * RecordWidth.InventoryItem + 4 + key * RecordWidth.InventoryItem + 8

\* Regions.read(f): a 32-bit count, then that many region identifiers.
RegionsWidth(count) == 4 + count * RecordWidth.Region

----------------------------------------------------------------------------
(* The statements of read(), in order.  op is the kind of statement, name  *)
(* the field of obj it assigns, cls the record class or struct format, n   *)
(* a width in bytes (for an inventory: the common capacity), c a count     *)
(* (for an inventory: the key capacity).                                   *)

St(op, name, cls, n, c) == [op |-> op, name |-> name, cls |-> cls, n |-> n, c |-> c]
Rec(name, cls) == St("rec", name, cls, RecordWidth[cls], 1)
Unpack(name, fmt, n) == St("int", name, fmt, n, 1)
\* Mutant: a raw run one byte short.
RawShort(name, n) == St("raw", name, "bytes", n - 1, 1)

Raw(name, n) == St("raw", name, "bytes", n, 1)

Header ==
    << St("version", "version", "<I", 4, 1),
       Rec("map_id", "MapId"),
       Raw("unk0x8", 8),
       Raw("unk0x10", 16),
       St("gaitems", "gaitem_map", "Gaitem", RecordWidth.Gaitem, 0),
       Rec("player_game_data", "PlayerGameData"),
       St("list", "sp_effects", "SPEffect", RecordWidth.SPEffect, SP_EFFECT_COUNT) >>

Equipment ==
    << Rec("equipped_items_equip_index", "EquippedItemsEquipIndex"),
       Rec("active_weapon_slots_and_arm_style", "ActiveWeaponSlotsAndArmStyle"),
       Rec("equipped_items_item_id", "EquippedItemsItemIds"),
       Rec("equipped_items_gaitem_handle", "EquippedItemsGaitemHandles"),
       St("inventory", "inventory_held", "Inventory", HELD_COMMON, HELD_KEY),
       Rec("equipped_spells", "EquippedSpells"),
       Rec("equipped_items", "EquippedItems"),
       Rec("equipped_gestures", "EquippedGestures"),
       Rec("acquired_projectiles", "AcquiredProjectiles"),
       Rec("equipped_armaments_and_items", "EquippedArmamentsAndItems"),
       Rec("equipped_physics", "EquippedPhysics"),
       Rec("face_data", "FaceData"),
       St("inventory", "inventory_storage_box", "Inventory", STORAGE_COMMON, STORAGE_KEY) >>

\* The debug look-ahead of the newer decoder: debug_pos = f.tell();
\* debug_bytes = f.read(32); f.seek(debug_pos); then `need` of those bytes
\* are unpacked as integers for printing.
DebugPeek(need) ==
    << St("peek", "debug_bytes", "bytes", DEBUG_PEEK, 1),
       St("seek", "debug_bytes", "<I", need, 1) >>

GameData ==
    << Rec("horse", "RideGameData"),
       Unpack("control_byte_maybe", "<B", 1),
       Rec("blood_stain", "BloodStain"),
       Unpack("unk_gamedataman_0x120_or_gamedataman_0x130", "<I", 4),
       Unpack("unk_gamedataman_0x88", "<I", 4),
       Rec("menu_profile_save_load", "MenuSaveLoad"),
       Rec("trophy_equip_data", "TrophyEquipData"),
       Rec("gaitem_game_data", "GaitemGameData"),
       Rec("tutorial_data", "TutorialData"),
       Unpack("gameman_0x8c", "<B", 1),
       Unpack("gameman_0x8d", "<B", 1),
       Unpack("gameman_0x8e", "<B", 1),
       Unpack("total_deaths_count", "<I", 4),
       Unpack("character_type", "<i", 4),
       Unpack("in_online_session_flag", "<B", 1),
       Unpack("character_type_online", "<I", 4),
       Unpack("last_rested_grace", "<I", 4),
       Unpack("not_alone_flag", "<B", 1),
       Unpack("in_game_countdown_timer", "<I", 4),
       Unpack("unk_gamedataman_0x124_or_gamedataman_0x134", "<I", 4),
       Raw("event_flags", EVENT_FLAGS_SIZE),
       Unpack("event_flags_terminator", "<B", 1) >>

World ==
    << Rec("field_area", "FieldArea"),
       Rec("world_area", "WorldArea"),
       Rec("world_geom_man", "WorldGeomMan"),
       Rec("world_geom_man2", "WorldGeomMan"),
       Rec("rend_man", "RendMan"),
       Rec("player_coordinates", "PlayerCoordinates"),
       Unpack("game_man_0x5be", "<B", 1),
       Unpack("game_man_0x5bf", "<B", 1),
       Unpack("spawn_point_entity_id", "<I", 4),
       Unpack("game_man_0xb64", "<I", 4),
       St("opt", "temp_spawn_point_entity_id", "<I", 4, 1),
       St("opt", "game_man_0xcb3", "<B", 1, 1),
       Rec("net_man", "NetMan"),
       Rec("world_area_weather", "WorldAreaWeather"),
       Rec("world_area_time", "WorldAreaTime"),
       Rec("base_version", "BaseVersion"),
       Unpack("steam_id", "<Q", 8),
       Rec("ps5_activity", "PS5Activity"),
       Rec("dlc", "DLC"),
       Rec("player_data_hash", "PlayerGameDataHash") >>

\* The newer decoder with the world records read before the game data.
ErParserProgramReordered ==
    Header \o Equipment
      \o DebugPeek(32)
      \o << St("gestures", "gestures", "Gesture", RecordWidth.Gesture, 0) >>
      \o DebugPeek(4)
      \o << St("regions", "unlocked_regions", "Region", RecordWidth.Region, 0) >>
      \o World \o GameData
      \o << St("rest", "rest", "bytes", 0, 1) >>

\* er_parser/user_data_x.py, UserDataX.read(f, is_ps, slot_start_offset, slot_size)
ErParserProgram ==
    Header \o Equipment
      \o DebugPeek(32)
      \o << St("gestures", "gestures", "Gesture", RecordWidth.Gesture, 0) >>
      \o DebugPeek(4)
      \o << St("regions", "unlocked_regions", "Region", RecordWidth.Region, 0) >>
      \o GameData \o World
      \o << St("rest", "rest", "bytes", 0, 1) >>

\* user_data_x.py, UserDataX.read(f, is_ps)
LegacyProgram ==
    Header \o Equipment
      \o << St("gestures", "gestures", "Gesture", RecordWidth.Gesture, 0) >>
      \o << St("regions", "unlocked_regions", "Region", RecordWidth.Region, 0) >>
      \o GameData \o World
      \o << St("rest", "rest", "bytes", 0, 1) >>

Program(d) == IF d = "er_parser" THEN ErParserProgram ELSE LegacyProgram

----------------------------------------------------------------------------
(* Layout: what each statement consumes when the stream holds enough *)

\* The number of elements a list statement reads.
StepCount(st, v, d) ==
    CASE st.op = "gaitems" -> GaitemCount(v)
      [] st.op = "gestures" ->
            IF d = "er_parser" THEN GestureCount(v) ELSE LegacyGestureCount(v)
      [] OTHER -> st.c

\* Whether an optional statement reads its field.
Gate(st, v) ==
    IF st.name = "temp_spawn_point_entity_id"
    THEN HasTempSpawnPoint(v)
    ELSE HasGameManExtraByte(v)

StepWidth(st, v, rc, d) ==
    CASE st.op \in {"version", "int", "raw", "rec"} -> st.n
      [] st.op \in {"gaitems", "gestures", "list"} -> StepCount(st, v, d) * st.n
      [] st.op = "inventory" -> InventoryWidth(st.n, st.c)
      [] st.op = "regions" -> RegionsWidth(rc)
      [] st.op = "opt" -> IF Gate(st, v) THEN st.n ELSE 0
      [] OTHER -> 0

RECURSIVE ConsumedThrough(_, _, _, _, _)
ConsumedThrough(prog, k, v, rc, d) ==
    IF k = 0 THEN 0
    ELSE ConsumedThrough(prog, k - 1, v, rc, d) + StepWidth(prog[k], v, rc, d)

----------------------------------------------------------------------------
(* Inputs *)

Decoders == {"er_parser", "legacy"}

\* The version field's four bytes: the values at each dispatch boundary,
\* a version whose low byte is zero, and a very large one (2^31 - 1).
VersionBytes ==
    {<<b, 0, 0, 0>> : b \in {0, 64, 65, 66, 81, 82, 200, 201}}
        \cup {<<0, 1, 0, 0>>, <<255, 255, 255, 127>>}

\* A region count large enough to push the fields past SLOT_SIZE.
CorruptRegionCount == 131072

\* How many parts of a slot's content differ from the nominal content.
MaxVaried == 1

RegionCounts == (0 .. MaxRegions) \cup {CorruptRegionCount}

\* The caller passes the data portion's size; a size below the version
\* field's width is the degenerate case.  The older decoder takes no size:
\* its caller's slots are SLOT_SIZE bytes.
SlotSizes == {SLOT_SIZE, 3}

\* The stream starts at the slot, or the slot is the first of a save file.
Starts == {0, HEADER_SIZE + CHECKSUM_SIZE}

\* Bytes the stream holds from the slot's start: cut at (or just inside)
\* every statement's field (for the degenerate slot size: the version
\* field), one byte short of the slot, the slot exactly, and two slots.
Lens(d, v, rc, ss) ==
    {ConsumedThrough(Program(d), k - 1, v, rc, d) + dl :
        k \in 1 .. (IF ss = SLOT_SIZE THEN Len(Program(d)) ELSE 1),
        dl \in 0 .. MaxDelta}
      \cup {ss - 1, ss, 2 * ss}

\* The fields of the dataclass UserDataX between version and rest, in the
\* order of their declaration.
DeclaredOrder ==
    << "map_id", "unk0x8", "unk0x10", "gaitem_map", "player_game_data",
       "sp_effects", "equipped_items_equip_index",
       "active_weapon_slots_and_arm_style", "equipped_items_item_id",
       "equipped_items_gaitem_handle", "inventory_held", "equipped_spells",
       "equipped_items", "equipped_gestures", "acquired_projectiles",
       "equipped_armaments_and_items", "equipped_physics", "face_data",
       "inventory_storage_box", "gestures", "unlocked_regions", "horse",
       "control_byte_maybe", "blood_stain",
       "unk_gamedataman_0x120_or_gamedataman_0x130", "unk_gamedataman_0x88",
       "menu_profile_save_load", "trophy_equip_data", "gaitem_game_data",
       "tutorial_data", "gameman_0x8c", "gameman_0x8d", "gameman_0x8e",
       "total_deaths_count", "character_type", "in_online_session_flag",
       "character_type_online", "last_rested_grace", "not_alone_flag",
       "in_game_countdown_timer",
       "unk_gamedataman_0x124_or_gamedataman_0x134", "event_flags",
       "event_flags_terminator", "field_area", "world_area", "world_geom_man",
       "world_geom_man2", "rend_man", "player_coordinates", "game_man_0x5be",
       "game_man_0x5bf", "spawn_point_entity_id", "game_man_0xb64",
       "temp_spawn_point_entity_id", "game_man_0xcb3", "net_man",
       "world_area_weather", "world_area_time", "base_version", "steam_id",
       "ps5_activity", "dlc", "player_data_hash" >>

\* The content of the fields whose value the program looks at.  Every
\* 32-bit integer of the death block holds the bytes word, its two flags
\* the byte flag; horse, weather and time are the values the mount, weather
\* and time records hold.
Words == {<<57, 48, 0, 0>>, <<255, 255, 255, 255>>, <<0, 0, 0, 128>>}

Flags == {1, 255}

Horses == {[hp |-> 100, state |-> "ACTIVE"], [hp |-> 0, state |-> "ACTIVE"],
           [hp |-> 0, state |-> "DEAD"]}

AreaIds == {5, 0}

Timestamps == {<<12, 30, 0>>, <<0, 0, 0>>}

\* A character name is the sequence of its code points; NominalName is "a".
NominalName == <<97>>

NominalContent ==
    [word |-> <<57, 48, 0, 0>>, flag |-> 1,
     horse |-> [hp |-> 100, state |-> "ACTIVE"],
     weather |-> 5, time |-> <<12, 30, 0>>, name |-> NominalName]

Contents ==
    {c \in [word : Words, flag : Flags, horse : Horses,
            weather : AreaIds, time : Timestamps, name : {NominalName}] :
        Cardinality({k \in DOMAIN c : c[k] # NominalContent[k]}) <= MaxVaried}

EmptyBytes == [lo |-> 0, hi |-> 0]

\* RideGameData(), WorldAreaWeather().area_id and WorldAreaTime() as the
\* constructors leave them.
DefaultRideGameData == [hp |-> 0, state |-> "INACTIVE"]

\* PlayerGameData().character_name as the constructor leaves it: "".
DefaultName == <<>>

DefaultContent ==
    [horse |-> DefaultRideGameData, weather |-> 0, time |-> <<0, 0, 0>>,
     name |-> DefaultName]

\* Mutant: one object serves every construction.
AllocShared(h) == 1

\* The reference of a newly constructed object: each construction, by a
\* default_factory or by a read, makes an object of its own.
Alloc(h) == Len(h) + 1

Store(h, ref, v) == IF ref > Len(h) THEN Append(h, v) ELSE [h EXCEPT ![ref] = v]

\* obj = cls(): horse refers to the object its default_factory made.
NewUserDataX(ref) ==
    [version |-> 0, fields |-> <<>>, rest |-> EmptyBytes, horse |-> ref,
     world_area_weather |-> DefaultContent.weather,
     world_area_time |-> DefaultContent.time,
     character_name |-> DefaultContent.name]

Slots == {"A", "B"}

\* The arguments a caller that reads a console save's slot from its place
\* in the file passes, and every choice of them; the older decoder takes
\* no slot_start_offset.
NominalArgs(entry) == [is_ps |-> FALSE, slot_start_offset |-> entry]

Arguments(d, entry) ==
    [is_ps : BOOLEAN,
     slot_start_offset : IF d = "er_parser" THEN Starts ELSE {entry}]

\* How many parts of the content and of the arguments are not nominal.
Varied(c, a, entry) ==
    Cardinality({k \in DOMAIN c : c[k] # NominalContent[k]})
      + Cardinality({k \in DOMAIN a : a[k] # NominalArgs(entry)[k]})

Init ==
    /\ decoder \in Decoders
    /\ slot_size \in (IF decoder = "legacy" THEN {SLOT_SIZE} ELSE SlotSizes)
    /\ pos \in Starts
    /\ data_start_offset = pos
    /\ \E vb \in VersionBytes, rc \in RegionCounts :
         \E avail \in Lens(decoder, U32LE(vb), rc, slot_size) :
            \* the content and the arguments are varied for streams that
            \* hold exactly one or two slots; what is cut short is cut with
            \* the nominal content and read with the nominal arguments
            \E c \in (IF avail \in {SLOT_SIZE, 2 * SLOT_SIZE} /\ U32LE(vb) # 0
                       THEN Contents ELSE {NominalContent}),
               a \in (IF avail \in {SLOT_SIZE, 2 * SLOT_SIZE}
                       THEN Arguments(decoder, pos) ELSE {NominalArgs(pos)}) :
               /\ Varied(c, a, pos) <= MaxVaried
               /\ data = [size |-> pos + avail, verBytes |-> vb,
                          regionCount |-> rc, content |-> c]
               /\ args = a
    /\ pc = 1
    /\ status = "reading"
    /\ obj = NewUserDataX(Alloc(<<>>))
    /\ heap = Store(<<>>, Alloc(<<>>), DefaultRideGameData)
    /\ debug_pos = 0
    /\ warned = FALSE
    /\ out = None
    /\ other = None
    /\ alone = [A |-> DefaultRideGameData, B |-> None]
    /\ called = None

----------------------------------------------------------------------------
(* Stream primitives *)

\* f.read(n): up to n bytes, fewer when the stream ends first.
ReadEnd(n) == Min(pos + n, data.size)

\* Mutant: no read is ever found short.
ShortNever(n) == FALSE

\* The stream ends before n more bytes: f.read(n) returns fewer than n.
Short(n) == pos + n > data.size

\* The bytes the stream holds from the slot's start.
Avail == data.size - data_start_offset

Statement == Program(decoder)[pc]

\* A field's value: the bytes [lo, hi) of the stream; count is the number
\* of elements read (for an inventory: the capacity of its common array,
\* and key the capacity of its key array).
\* val is the decoded value where the model keeps one.
Field(name, lo, hi, count) ==
    [name |-> name, lo |-> lo, hi |-> hi, count |-> count, key |-> 0, val |-> None]

\* The integers of the death block.
DeathBlock ==
    {"total_deaths_count", "character_type", "in_online_session_flag",
     "character_type_online", "last_rested_grace", "not_alone_flag",
     "in_game_countdown_timer", "unk_gamedataman_0x124_or_gamedataman_0x134"}

\* The bytes f.read(n) returns for an integer statement, where the content
\* gives them.
BytesOf(st) ==
    IF st.name \in DeathBlock
    THEN IF st.n = 4 THEN data.content.word ELSE <<data.content.flag>>
    ELSE None

\* A 32-bit value is kept as its two 16-bit halves, value hi * 65536 + lo,
\* so that the whole unsigned range is exact.
Halves(b) == [lo |-> b[1] + 256 * b[2], hi |-> b[3] + 256 * b[4]]

\* Mutant: the signed format decoded as the unsigned one.
StructUnpackUnsigned(fmt, b) ==
    CASE fmt = "<B" -> b[1]
      [] fmt = "<I" -> Halves(b)
      [] fmt = "<i" -> Halves(b)

\* struct.unpack(fmt, b)[0] for the formats of the death block: "<B" an
\* unsigned byte, "<I" an unsigned and "<i" a two's-complement signed
\* 32-bit little-endian integer.
StructUnpack(fmt, b) ==
    CASE fmt = "<B" -> b[1]
      [] fmt = "<I" -> Halves(b)
      [] fmt = "<i" -> IF b[4] >= 128
                       THEN [Halves(b) EXCEPT !.hi = @ - 65536]
                       ELSE Halves(b)

Decoded(st) == IF BytesOf(st) = None THEN None ELSE StructUnpack(st.cls, BytesOf(st))

\* A read that raises (struct.error on a short buffer) ends read() with
\* no object returned.
Raise ==
    /\ status' = "raised"
    /\ pos' = data.size
    /\ UNCHANGED <<pc, obj, debug_pos, warned>>

\* obj.<name> = <w bytes read and decoded>; on to the next statement.
Assign(name, w, count) ==
    /\ pos' = pos + w
    /\ obj' = [obj EXCEPT !.fields = Append(@, Field(name, pos, pos + w, count))]
    /\ pc' = pc + 1
    /\ UNCHANGED <<status, debug_pos, warned>>

StreamFrame ==
    UNCHANGED <<decoder, data, slot_size, data_start_offset, out, other, called, args>>

Frame == StreamFrame /\ UNCHANGED <<heap, alone>>

----------------------------------------------------------------------------
(* The statements of read() *)

\* The empty-slot branch of the newer decoder: read the remaining bytes of
\* the slot into rest (f.read returns what is there) and return.
EmptySlotErParser(p) ==
    LET bytes_read_so_far == p - data_start_offset
        remaining == slot_size - bytes_read_so_far
    IN  IF remaining > 0
        THEN /\ pos' = Min(p + remaining, data.size)
             /\ obj' = [obj EXCEPT !.version = 0,
                                   !.rest = [lo |-> p, hi |-> Min(p + remaining, data.size)]]
        ELSE /\ pos' = p
             /\ obj' = [obj EXCEPT !.version = 0]

\* The empty-slot branch of the older decoder: return at once.
EmptySlotLegacy(p) ==
    /\ pos' = p
    /\ obj' = [obj EXCEPT !.version = 0]

EmptySlot(p) ==
    IF decoder = "er_parser" THEN EmptySlotErParser(p) ELSE EmptySlotLegacy(p)

\* obj.version = struct.unpack("<I", f.read(4))[0]; if obj.version == 0: ...
ReadVersion ==
    /\ status = "reading"
    /\ Statement.op = "version"
    /\ IF Short(4)
       THEN Raise
       ELSE LET version == U32LE(data.verBytes)
            IN  IF version = 0
                THEN /\ EmptySlot(pos + 4)
                     /\ status' = "returned"
                     /\ UNCHANGED <<pc, debug_pos, warned>>
                ELSE /\ pos' = pos + 4
                     /\ obj' = [obj EXCEPT !.version = version]
                     /\ pc' = pc + 1
                     /\ UNCHANGED <<status, debug_pos, warned>>
    /\ Frame

\* obj.<name> = <Class>.read(f)
ReadRecord ==
    /\ status = "reading"
    /\ Statement.op = "rec"
    /\ IF Short(Statement.n)
       THEN Raise /\ UNCHANGED <<heap, alone>>
       ELSE LET name == Statement.name
                ref == Alloc(heap)
                content == data.content
            IN  /\ pos' = pos + Statement.n
                /\ obj' = [obj EXCEPT
                      !.fields = Append(@, Field(name, pos, pos + Statement.n, 1)),
                      !.horse = IF name = "horse" THEN ref ELSE @,
                      !.world_area_weather =
                          IF name = "world_area_weather" THEN content.weather ELSE @,
                      !.world_area_time =
                          IF name = "world_area_time" THEN content.time ELSE @,
                      !.character_name =
                          IF name = "player_game_data" THEN content.name ELSE @]
                /\ heap' = IF name = "horse" THEN Store(heap, ref, content.horse)
                           ELSE heap
                /\ alone' = IF name = "horse" THEN [alone EXCEPT !.A = content.horse]
                            ELSE alone
                /\ pc' = pc + 1
                /\ UNCHANGED <<status, debug_pos, warned>>
    /\ StreamFrame

\* obj.<name> = struct.unpack(fmt, f.read(n))[0]
ReadUnpack ==
    /\ status = "reading"
    /\ Statement.op = "int"
    /\ IF Short(Statement.n) THEN Raise
       ELSE /\ pos' = pos + Statement.n
            /\ obj' = [obj EXCEPT !.fields = Append(@,
                          [Field(Statement.name, pos, pos + Statement.n, 1)
                              EXCEPT !.val = Decoded(Statement)])]
            /\ pc' = pc + 1
            /\ UNCHANGED <<status, debug_pos, warned>>
    /\ Frame

\* obj.<name> = f.read(n): no length check, the stream may give fewer bytes.
ReadRaw ==
    /\ status = "reading"
    /\ Statement.op = "raw"
    /\ pos' = ReadEnd(Statement.n)
    /\ obj' = [obj EXCEPT !.fields =
                  Append(@, Field(Statement.name, pos, ReadEnd(Statement.n), 1))]
    /\ pc' = pc + 1
    /\ UNCHANGED <<status, debug_pos, warned>>
    /\ Frame

\* obj.gaitem_map = [Gaitem.read(f) for _ in range(gaitem_count)]
ReadGaitems ==
    /\ status = "reading"
    /\ Statement.op = "gaitems"
    /\ LET gaitem_count == GaitemCount(obj.version)
       IN  IF Short(gaitem_count * Statement.n)
           THEN Raise
           ELSE Assign(Statement.name, gaitem_count * Statement.n, gaitem_count)
    /\ Frame

\* obj.sp_effects = [SPEffect.read(f) for _ in range(13)]
ReadList ==
    /\ status = "reading"
    /\ Statement.op = "list"
    /\ IF Short(Statement.c * Statement.n)
       THEN Raise
       ELSE Assign(Statement.name, Statement.c * Statement.n, Statement.c)
    /\ Frame

\* Mutant: the two capacities are passed in the other order.
ReadInventorySwapped ==
    /\ status = "reading"
    /\ Statement.op = "inventory"
    /\ LET common == Statement.c
           key == Statement.n
           w == InventoryWidth(common, key)
       IN  IF Short(w) THEN Raise
           ELSE /\ pos' = pos + w
                /\ obj' = [obj EXCEPT !.fields = Append(@,
                              [Field(Statement.name, pos, pos + w, common)
                                  EXCEPT !.key = key])]
                /\ pc' = pc + 1
                /\ UNCHANGED <<status, debug_pos, warned>>
    /\ Frame

\* obj.<name> = Inventory.read(f, common, key)
ReadInventory ==
    /\ status = "reading"
    /\ Statement.op = "inventory"
    /\ LET common == Statement.n
           key == Statement.c
           w == InventoryWidth(common, key)
       IN  IF Short(w) THEN Raise
           ELSE /\ pos' = pos + w
                /\ obj' = [obj EXCEPT !.fields = Append(@,
                              [Field(Statement.name, pos, pos + w, common)
                                  EXCEPT !.key = key])]
                /\ pc' = pc + 1
                /\ UNCHANGED <<status, debug_pos, warned>>
    /\ Frame

\* newer: obj.gestures = Gestures.read_with_count(f, gesture_count)
\* older: obj.gestures = Gestures.read(f)
ReadGestures ==
    /\ status = "reading"
    /\ Statement.op = "gestures"
    /\ LET gesture_count == StepCount(Statement, obj.version, decoder)
       IN  IF Short(gesture_count * Statement.n)
           THEN Raise
           ELSE Assign(Statement.name, gesture_count * Statement.n, gesture_count)
    /\ Frame

\* obj.unlocked_regions = Regions.read(f): the count, then count entries.
ReadRegions ==
    /\ status = "reading"
    /\ Statement.op = "regions"
    /\ IF Short(4) \/ Short(RegionsWidth(data.regionCount))
       THEN Raise
       ELSE Assign(Statement.name, RegionsWidth(data.regionCount), data.regionCount)
    /\ Frame

\* debug_pos = f.tell(); debug_bytes = f.read(32)
PeekRead ==
    /\ status = "reading"
    /\ Statement.op = "peek"
    /\ debug_pos' = pos
    /\ pos' = ReadEnd(Statement.n)
    /\ pc' = pc + 1
    /\ UNCHANGED <<status, obj, warned>>
    /\ Frame

\* f.seek(debug_pos); print(... struct.unpack('<I', debug_bytes[i:i+4]) ...):
\* unpacking raises when debug_bytes holds fewer bytes than are unpacked.
PeekSeek ==
    /\ status = "reading"
    /\ Statement.op = "seek"
    /\ IF pos - debug_pos < Statement.n
       THEN /\ status' = "raised"
            /\ pos' = debug_pos
            /\ UNCHANGED <<pc, obj, debug_pos, warned>>
       ELSE /\ pos' = debug_pos
            /\ pc' = pc + 1
            /\ UNCHANGED <<status, obj, debug_pos, warned>>
    /\ Frame

\* if obj.version >= 65: ... ; if obj.version >= 66: ...
ReadOptional ==
    /\ status = "reading"
    /\ Statement.op = "opt"
    /\ IF Gate(Statement, obj.version)
       THEN IF Short(Statement.n) THEN Raise
            ELSE Assign(Statement.name, Statement.n, 1)
       ELSE /\ pc' = pc + 1
            /\ UNCHANGED <<pos, obj, status, debug_pos, warned>>
    /\ Frame

\* Mutant: the tail is skipped instead of read into rest.
RestErParserSkipsTail ==
    /\ UNCHANGED <<pos, obj>>
    /\ warned' = (slot_size - (pos - data_start_offset) < 0)

\* Mutant: the bytes read are counted from slot_start_offset.
RestErParserFromSlotStart ==
    LET bytes_read_so_far == pos - args.slot_start_offset
        remaining_bytes == slot_size - bytes_read_so_far
    IN  /\ IF remaining_bytes > 0
           THEN /\ pos' = ReadEnd(remaining_bytes)
                /\ obj' = [obj EXCEPT !.rest = [lo |-> pos, hi |-> ReadEnd(remaining_bytes)]]
           ELSE UNCHANGED <<pos, obj>>
        /\ warned' = (remaining_bytes < 0)

\* newer: remaining_bytes = slot_size - (f.tell() - data_start_offset);
\*        read them into rest if positive, warn if negative; return obj.
RestErParser ==
    LET bytes_read_so_far == pos - data_start_offset
        remaining_bytes == slot_size - bytes_read_so_far
    IN  /\ IF remaining_bytes > 0
           THEN /\ pos' = ReadEnd(remaining_bytes)
                /\ obj' = [obj EXCEPT !.rest = [lo |-> pos, hi |-> ReadEnd(remaining_bytes)]]
           ELSE UNCHANGED <<pos, obj>>
        /\ warned' = (remaining_bytes < 0)

\* older: obj.rest = f.read(); return obj.
RestLegacy ==
    /\ pos' = data.size
    /\ obj' = [obj EXCEPT !.rest = [lo |-> pos, hi |-> data.size]]
    /\ UNCHANGED warned

ReadRest ==
    /\ status = "reading"
    /\ Statement.op = "rest"
    /\ IF decoder = "er_parser" THEN RestErParser ELSE RestLegacy
    /\ status' = "returned"
    /\ UNCHANGED <<pc, debug_pos>>
    /\ Frame

----------------------------------------------------------------------------
(* The methods of a returned slot.  Slot A is obj; slot B is the slot a    *)
(* separate call of read() returned.                                       *)

\* RideGameData.has_bug(): the mount has no HP left and is still active.
HasBug(h) == h.hp = 0 /\ h.state = "ACTIVE"

\* RideGameData.fix_bug(): the state of a mount that has the bug is reset;
\* its HP is kept.
FixBug(h) == IF HasBug(h) THEN [h EXCEPT !.state = "DEAD"] ELSE h

\* WorldAreaWeather.is_corrupted(): the area identifier is zero.
IsCorrupted(area_id) == area_id = 0

\* WorldAreaTime.is_zero(): the timestamp is all zero.
IsZero(t) == t = <<0, 0, 0>>

\* The other call of read(), whole: cls(), and for a non-empty slot the
\* records read from its own bytes, of which h is the mount's.
DecodeOther ==
    /\ status = "returned"
    /\ other = None
    /\ Avail = 2 * SLOT_SIZE
    /\ \E version \in {0, 1}, h \in Horses :
         LET made == Alloc(heap)
             heap1 == Store(heap, made, DefaultRideGameData)
             read == Alloc(heap1)
         IN  IF version = 0
             THEN /\ h = NominalContent.horse
                  /\ heap' = heap1
                  /\ other' = NewUserDataX(made)
                  /\ alone' = [alone EXCEPT !.B = DefaultRideGameData]
             ELSE /\ heap' = Store(heap1, read, h)
                  /\ other' = [NewUserDataX(made) EXCEPT
                                  !.version = version,
                                  !.horse = read,
                                  !.world_area_weather = NominalContent.weather,
                                  !.world_area_time = NominalContent.time,
                                  !.character_name = NominalContent.name]
                  /\ alone' = [alone EXCEPT !.B = h]
    /\ UNCHANGED <<decoder, data, pos, slot_size, data_start_offset, pc, status,
                   obj, debug_pos, warned, out, called, args>>

SlotOf(s) == IF s = "A" THEN obj ELSE other

Callable(s) == status = "returned" /\ (s = "B" => other # None)

\* A method call on slot s is recorded with its result.
Call(s, op, result) == called' = [slot |-> s, op |-> op, result |-> result]

MethodFrame ==
    UNCHANGED <<decoder, data, pos, slot_size, data_start_offset, pc, status,
                debug_pos, warned, out, args>>

\* Mutant: the detector repairs what it finds.
has_torrent_bug_repairs(s) ==
    /\ Callable(s)
    /\ Call(s, "has_torrent_bug", HasBug(heap[SlotOf(s).horse]))
    /\ heap' = [heap EXCEPT ![SlotOf(s).horse] = FixBug(@)]
    /\ alone' = [alone EXCEPT ![s] = FixBug(@)]
    /\ UNCHANGED <<obj, other>>
    /\ MethodFrame

\* def has_torrent_bug(self): return self.horse.has_bug()
has_torrent_bug(s) ==
    /\ Callable(s)
    /\ Call(s, "has_torrent_bug", HasBug(heap[SlotOf(s).horse]))
    /\ UNCHANGED <<obj, other, heap, alone>>
    /\ MethodFrame

\* def has_weather_corruption(self): return self.world_area_weather.is_corrupted()
has_weather_corruption(s) ==
    /\ Callable(s)
    /\ Call(s, "has_weather_corruption", IsCorrupted(SlotOf(s).world_area_weather))
    /\ UNCHANGED <<obj, other, heap, alone>>
    /\ MethodFrame

\* def has_time_corruption(self): return self.world_area_time.is_zero()
has_time_corruption(s) ==
    /\ Callable(s)
    /\ Call(s, "has_time_corruption", IsZero(SlotOf(s).world_area_time))
    /\ UNCHANGED <<obj, other, heap, alone>>
    /\ MethodFrame

\* Mutant: a slot counts as empty when no field of it was read.
is_empty_no_fields(s) ==
    /\ Callable(s)
    /\ Call(s, "is_empty", SlotOf(s).fields = <<>>)
    /\ UNCHANGED <<obj, other, heap, alone>>
    /\ MethodFrame

\* def is_empty(self): return self.version == 0
is_empty(s) ==
    /\ Callable(s)
    /\ Call(s, "is_empty", SlotOf(s).version = 0)
    /\ UNCHANGED <<obj, other, heap, alone>>
    /\ MethodFrame

\* Mutant: a fixer that switches the mount's state whatever it is.
fix_torrent_bug_switches(s) ==
    LET Switch(h) == [h EXCEPT !.state = IF @ = "ACTIVE" THEN "DEAD" ELSE "ACTIVE"]
    IN  /\ Callable(s)
        /\ Call(s, "fix_torrent_bug", None)
        /\ heap' = [heap EXCEPT ![SlotOf(s).horse] = Switch(@)]
        /\ alone' = [alone EXCEPT ![s] = Switch(@)]
        /\ UNCHANGED <<obj, other>>
        /\ MethodFrame

\* Mutant: a fixer that gives the mount its HP back.
fix_torrent_bug_heals(s) ==
    LET Heal(h) == IF HasBug(h) THEN [h EXCEPT !.hp = 100] ELSE h
    IN  /\ Callable(s)
        /\ Call(s, "fix_torrent_bug", None)
        /\ heap' = [heap EXCEPT ![SlotOf(s).horse] = Heal(@)]
        /\ alone' = [alone EXCEPT ![s] = Heal(@)]
        /\ UNCHANGED <<obj, other>>
        /\ MethodFrame

\* def fix_torrent_bug(self): self.horse.fix_bug()
fix_torrent_bug(s) ==
    /\ Callable(s)
    /\ Call(s, "fix_torrent_bug", None)
    /\ heap' = [heap EXCEPT ![SlotOf(s).horse] = FixBug(@)]
    /\ alone' = [alone EXCEPT ![s] = FixBug(@)]
    /\ UNCHANGED <<obj, other>>
    /\ MethodFrame

\* str.isprintable and str.isspace on the code points below 128.
IsPrintable(c) == c \in 32 .. 126

IsSpace(c) == c \in (9 .. 13) \cup (28 .. 32)

\* ''.join(c for c in name if c.isprintable() or c in ' \t\n')
Cleaned(name) ==
    SelectSeq(name, LAMBDA c : IsPrintable(c) \/ c \in {32, 9, 10})

\* str.strip(): the leading and the trailing whitespace removed.
Strip(str) ==
    LET kept == {i \in 1 .. Len(str) : ~IsSpace(str[i])}
    IN  IF kept = {} THEN <<>>
        ELSE SubSeq(str, CHOOSE i \in kept : \A j \in kept : i <= j,
                         CHOOSE i \in kept : \A j \in kept : j <= i)

\* The literal "Unknown".
Unknown == <<85, 110, 107, 110, 111, 119, 110>>

\* What get_character_name returns for a stored name.  newer:
\* cleaned.strip() if cleaned else "Unknown" (an empty str is falsy);
\* older: the stored name as it is.
CharacterName(d, name) ==
    IF d = "er_parser"
    THEN IF Cleaned(name) # <<>> THEN Strip(Cleaned(name)) ELSE Unknown
    ELSE name

\* def get_character_name(self)
get_character_name(s) ==
    /\ Callable(s)
    /\ Call(s, "get_character_name", CharacterName(decoder, SlotOf(s).character_name))
    /\ UNCHANGED <<obj, other, heap, alone>>
    /\ MethodFrame

----------------------------------------------------------------------------
(* Encoding a returned slot: every field in the same order, the empty-slot *)
(* shortcut mirrored, the tail verbatim; SlotOverrun when the produced     *)
(* length is not slot_size.                                                *)

HasField(o, name) == \E i \in 1 .. Len(o.fields) : o.fields[i].name = name

FieldOf(o, name) == o.fields[CHOOSE i \in 1 .. Len(o.fields) : o.fields[i].name = name]

RECURSIVE SumLen(_, _)
SumLen(fs, k) == IF k = 0 THEN 0 ELSE SumLen(fs, k - 1) + (fs[k].hi - fs[k].lo)

\* Bytes consumed by the fields, the version field included.
FieldBytes(o) == 4 + SumLen(o.fields, Len(o.fields))

RestLen(o) == o.rest.hi - o.rest.lo

\* Ranges of stream offsets written one after the other: empty ranges
\* vanish and a range that continues the previous one extends it.
NonEmpty(seg) == seg.lo # seg.hi

Coalesce(segs) ==
    LET ne == SelectSeq(segs, NonEmpty)
        starts == {i \in 1 .. Len(ne) : i = 1 \/ ne[i].lo # ne[i - 1].hi}
        nth(k) == CHOOSE i \in starts : Cardinality({j \in starts : j < i}) = k - 1
        last(i) == CHOOSE j \in i .. Len(ne) :
                      /\ \A m \in (i + 1) .. j : m \notin starts
                      /\ (j = Len(ne) \/ (j + 1) \in starts)
    IN  [k \in 1 .. Cardinality(starts) |->
            [lo |-> ne[nth(k)].lo, hi |-> ne[last(nth(k))].hi]]

EncodedBody(o) ==
    LET segs == IF o.version = 0
                THEN <<o.rest>>
                ELSE [i \in 1 .. Len(o.fields) |->
                         [lo |-> o.fields[i].lo, hi |-> o.fields[i].hi]] \o <<o.rest>>
    IN  Coalesce(segs)

EncodedLength(o) ==
    IF o.version = 0 THEN 4 + RestLen(o) ELSE FieldBytes(o) + RestLen(o)

\* horse is what the mount record's bytes are written from.
EncodeSlot(o, size) ==
    IF EncodedLength(o) # size
    THEN [error |-> "SlotOverrun", head |-> <<>>, body |-> <<>>, horse |-> None]
    ELSE [error |-> "", head |-> PackU32LE(o.version), body |-> EncodedBody(o),
          horse |-> IF o.version = 0 THEN None ELSE heap[o.horse]]

Encode ==
    /\ status = "returned"
    /\ out' = EncodeSlot(obj, slot_size)
    /\ status' = "encoded"
    /\ UNCHANGED <<decoder, data, pos, slot_size, data_start_offset, pc, obj,
                   debug_pos, warned, heap, other, alone, called, args>>

\* The slot's bytes as the stream holds them, when it holds slot_size of them.
InputBuffer ==
    [error |-> "",
     head |-> data.verBytes,
     body |-> IF slot_size > 4
              THEN <<[lo |-> data_start_offset + 4, hi |-> data_start_offset + slot_size]>>
              ELSE <<>>,
     horse |-> IF U32LE(data.verBytes) = 0 THEN None ELSE data.content.horse]


----------------------------------------------------------------------------
(* Properties *)

Returned == status \in {"returned", "encoded"}

\* C1: for every decode of a non-empty slot that returns a slot, the bytes
\* consumed by all fields plus len(rest) equal slot_size exactly, for every
\* input buffer and every slot_size (stated here for the real slot size).
C1_TotalSizeClosure ==
    (decoder = "er_parser" /\ Returned /\ obj.version # 0 /\ slot_size = SLOT_SIZE)
        => FieldBytes(obj) + RestLen(obj) = slot_size

\* C2: when the first four bytes decode to 0, decode consumes exactly those
\* four bytes as meaningful data and returns a slot whose rest has length
\* slot_size - 4 (stated here for streams that hold the whole slot).
C2_EmptySlotClosure ==
    (Returned /\ U32LE(data.verBytes) = 0 /\ slot_size >= 4 /\ Avail >= slot_size)
        => (obj.version = 0 /\ obj.fields = <<>> /\ RestLen(obj) = slot_size - 4)

\* C3: for every non-zero version v, decode reads exactly 5118 gaitem
\* entries when v <= 81 and exactly 5120 when v >= 82, in both decoders.
C3_GaitemDispatch ==
    HasField(obj, "gaitem_map") =>
        LET g == FieldOf(obj, "gaitem_map")
        IN  /\ obj.version <= 81 => g.count = 5118
            /\ obj.version >= 82 => g.count = 5120
            /\ g.hi - g.lo = g.count * RecordWidth.Gaitem

C3_Witness ==
    /\ HasField(obj, "gaitem_map")
    /\ obj.version = 81
    /\ FieldOf(obj, "gaitem_map").count = 5118

\* C4: for every non-zero version v, decode reads the unlocked-gesture list
\* with exactly 64 entries when v <= 200 and exactly 128 when v >= 201, in
\* every decoder of the repository.
C4_GestureDispatch ==
    HasField(obj, "gestures") =>
        LET g == FieldOf(obj, "gestures")
        IN  /\ obj.version <= 200 => g.count = 64
            /\ obj.version >= 201 => g.count = 128

\* C5: after decode, temp_spawn_point_entity_id is present (4 bytes consumed)
\* if and only if version >= 65; below that it is absent and the field after
\* game_man_0xb64 starts right where game_man_0xb64 ends.
C5_TempSpawnPoint ==
    Returned =>
        /\ HasField(obj, "temp_spawn_point_entity_id") <=> obj.version >= 65
        /\ HasField(obj, "temp_spawn_point_entity_id") =>
              LET t == FieldOf(obj, "temp_spawn_point_entity_id")
              IN  t.hi - t.lo = 4 /\ t.lo = FieldOf(obj, "game_man_0xb64").hi
        /\ (obj.version # 0 /\ obj.version <= 64) =>
              FieldOf(obj, "net_man").lo = FieldOf(obj, "game_man_0xb64").hi

C5_Witness ==
    /\ Returned
    /\ obj.version = 65
    /\ HasField(obj, "temp_spawn_point_entity_id")

\* C6: after decode, game_man_0xcb3 is present (1 byte consumed) if and only
\* if version >= 66; for version 65 it is absent while the temp spawn point
\* is present, so the optional block is 0, 4 or 5 bytes wide, never 1.
C6_GameManExtraByte ==
    Returned =>
        /\ HasField(obj, "game_man_0xcb3") <=> obj.version >= 66
        /\ HasField(obj, "game_man_0xcb3") =>
              LET g == FieldOf(obj, "game_man_0xcb3") IN g.hi - g.lo = 1
        /\ obj.version # 0 =>
              LET w == FieldOf(obj, "net_man").lo - FieldOf(obj, "game_man_0xb64").hi
              IN  /\ w \in {0, 4, 5}
                  /\ obj.version = 65 => w = 4
                  /\ obj.version >= 66 => w = 5

C6_Witness ==
    /\ Returned
    /\ obj.version = 65
    /\ HasField(obj, "temp_spawn_point_entity_id")
    /\ ~HasField(obj, "game_man_0xcb3")

\* C7: decode never returns a slot after consuming more than slot_size
\* bytes: when slot_size minus the bytes consumed is negative after the last
\* field, it fails with an overrun error.
C7_SlotOverrun ==
    (decoder = "er_parser" /\ Returned /\ obj.version # 0 /\ slot_size = SLOT_SIZE)
        => FieldBytes(obj) <= slot_size

\* C8: for a non-empty slot, when the buffer holds fewer bytes than the slot
\* needs (it ends inside any field or inside the tail), decode fails and
\* returns no slot.
C8_TruncationFatal ==
    (decoder = "er_parser" /\ Returned /\ obj.version # 0) => Avail >= slot_size

FieldNames(o) == [i \in 1 .. Len(o.fields) |-> o.fields[i].name]

IsPrefix(s, t) == Len(s) <= Len(t) /\ \A i \in 1 .. Len(s) : s[i] = t[i]

\* The declared fields a slot of version v holds: all of them, less the
\* field only versions from 65 on hold and the one only versions from 66 on
\* hold.
DeclaredFor(v) ==
    LET Held(n) == /\ (n = "temp_spawn_point_entity_id" => v >= 65)
                   /\ (n = "game_man_0xcb3" => v >= 66)
    IN  SelectSeq(DeclaredOrder, Held)

\* C11: for a non-empty slot, in both decoders, the fields are read in
\* exactly their declared order, version first and the tail last: at every
\* point of a decode the fields read so far are the leading ones of the
\* declared order, which differs between versions only by the presence of
\* the two optional fields; the list lengths differ between versions only
\* for the gaitem table and the gestures; a decode that returns has read
\* every field, and only then the tail.
C11_FieldOrder ==
    /\ obj.fields # <<>> => obj.version = U32LE(data.verBytes) /\ obj.version # 0
    /\ IsPrefix(FieldNames(obj), DeclaredFor(U32LE(data.verBytes)))
    /\ \A i \in 1 .. Len(obj.fields) :
          obj.fields[i].name \notin {"gaitem_map", "gestures", "unlocked_regions"}
              => obj.fields[i].count \in {1, SP_EFFECT_COUNT,
                                          HELD_COMMON, STORAGE_COMMON}
    /\ (Returned /\ obj.version # 0)
          => FieldNames(obj) = DeclaredFor(obj.version)
    /\ RestLen(obj) > 0 => Returned

\* A non-empty slot of a version that holds both optional fields has been
\* decoded to its end, by either decoder.
C11_Witness ==
    /\ status = "returned"
    /\ obj.version >= 66
    /\ Len(obj.fields) = Len(DeclaredOrder)
    /\ pc > Len(Program(decoder)) - 1

IndexOf(o, name) == CHOOSE i \in 1 .. Len(o.fields) : o.fields[i].name = name

\* C12: whatever the version, the held inventory is read with the
\* capacities (0xa80, 0x180) and the storage inventory with (0x780, 0x80);
\* the held inventory is read before the face data and the storage
\* inventory after it.
C12_InventoryCapacity ==
    /\ HasField(obj, "inventory_held") =>
          /\ FieldOf(obj, "inventory_held").count = 2688
          /\ FieldOf(obj, "inventory_held").key = 384
    /\ HasField(obj, "inventory_storage_box") =>
          /\ FieldOf(obj, "inventory_storage_box").count = 1920
          /\ FieldOf(obj, "inventory_storage_box").key = 128
    /\ HasField(obj, "face_data") =>
          /\ HasField(obj, "inventory_held")
          /\ IndexOf(obj, "inventory_held") < IndexOf(obj, "face_data")
    /\ HasField(obj, "inventory_storage_box") =>
          /\ HasField(obj, "face_data")
          /\ IndexOf(obj, "face_data") < IndexOf(obj, "inventory_storage_box")

\* Both inventories have been read from a slot of the newest gaitem layout.
C12_Witness ==
    /\ HasField(obj, "inventory_storage_box")
    /\ HasField(obj, "inventory_held")
    /\ obj.version > 81
    /\ FieldOf(obj, "inventory_held").hi - FieldOf(obj, "inventory_held").lo
          = InventoryWidth(HELD_COMMON, HELD_KEY)

\* C13: a decode that has read the terminator consumed exactly 1,833,375
\* bytes as the event flags, stored as that range of the input unchanged,
\* and exactly one byte after them as the terminator.
C13_EventFlags ==
    HasField(obj, "event_flags_terminator") =>
        LET flags == FieldOf(obj, "event_flags")
            term == FieldOf(obj, "event_flags_terminator")
            before == FieldOf(obj, "unk_gamedataman_0x124_or_gamedataman_0x134")
        IN  /\ HasField(obj, "event_flags")
            /\ flags.lo = before.hi
            /\ flags.hi - flags.lo = 1833375
            /\ term.lo = flags.hi
            /\ term.hi - term.lo = 1
            /\ IndexOf(obj, "event_flags_terminator") = IndexOf(obj, "event_flags") + 1

\* The terminator has been read, by the newer decoder.
C13_Witness ==
    /\ decoder = "er_parser"
    /\ HasField(obj, "event_flags_terminator")
    /\ pos >= FieldOf(obj, "event_flags").lo + EVENT_FLAGS_SIZE + 1

\* C17: during a decode the stream position never decreases from one
\* stream operation to the next: no seek backwards occurs (stated here
\* for the real slot size).
C17_MonotonicCursor == [][slot_size = SLOT_SIZE => pos' >= pos]_vars

\* C18 as stated: the header fields that follow the version field (map_id,
\* unk0x8, unk0x10) consume exactly 32 bytes before the gaitem table starts.
C18_HeaderAfterVersionIs32 ==
    HasField(obj, "gaitem_map") =>
        FieldOf(obj, "gaitem_map").lo - FieldOf(obj, "map_id").lo = 32

\* C18, amended: the header is 32 bytes with the version field included.
\* The fields that follow the version (map_id of 4 bytes, unk0x8 of 8,
\* unk0x10 of 16) consume exactly 28 bytes, and the gaitem table starts 32
\* bytes after the slot's start.
C18_HeaderWidth ==
    HasField(obj, "gaitem_map") =>
        LET map_id == FieldOf(obj, "map_id")
            unk0x8 == FieldOf(obj, "unk0x8")
            unk0x10 == FieldOf(obj, "unk0x10")
            gaitem_map == FieldOf(obj, "gaitem_map")
        IN  /\ map_id.lo = data_start_offset + 4
            /\ map_id.hi - map_id.lo = 4
            /\ unk0x8.lo = map_id.hi /\ unk0x8.hi - unk0x8.lo = 8
            /\ unk0x10.lo = unk0x8.hi /\ unk0x10.hi - unk0x10.lo = 16
            /\ gaitem_map.lo = unk0x10.hi
            /\ gaitem_map.lo - map_id.lo = 28
            /\ gaitem_map.lo - data_start_offset = 32

\* The gaitem table has been read from a slot that is not the first thing
\* in its stream.
C18_Witness ==
    /\ HasField(obj, "gaitem_map")
    /\ data_start_offset = HEADER_SIZE + CHECKSUM_SIZE
    /\ FieldOf(obj, "gaitem_map").lo = data_start_offset + 32

\* C20: after decode returns for any slot, empty or not, of a stream that
\* holds more than this slot, the stream position is the position at
\* entry plus slot_size.
C20_StreamAlignment ==
    (Returned /\ slot_size = SLOT_SIZE /\ Avail = 2 * slot_size)
        => pos = data_start_offset + slot_size

\* C19: in the death block character_type alone is decoded as a signed
\* 32-bit little-endian integer (FF FF FF FF gives -1); the five other
\* 32-bit fields are decoded as unsigned (0 .. 2^32 - 1) and the two flags
\* as single unsigned bytes; the block is 26 bytes wide.
C19_Signedness ==
    HasField(obj, "unk_gamedataman_0x124_or_gamedataman_0x134") =>
        LET w == data.content.word
            low == w[1] + 256 * w[2]
            high == w[3] + 256 * w[4]
            ct == FieldOf(obj, "character_type")
            first == FieldOf(obj, "total_deaths_count")
            last == FieldOf(obj, "unk_gamedataman_0x124_or_gamedataman_0x134")
        IN  /\ ct.val.lo = low
            /\ ct.val.hi \in -32768 .. 32767
            /\ (ct.val.hi - high) % 65536 = 0
            /\ w = <<255, 255, 255, 255>> => ct.val.hi * 65536 + ct.val.lo = -1
            /\ ct.hi - ct.lo = 4
            /\ \A n \in {"total_deaths_count", "character_type_online",
                          "last_rested_grace", "in_game_countdown_timer",
                          "unk_gamedataman_0x124_or_gamedataman_0x134"} :
                  /\ FieldOf(obj, n).val.lo = low
                  /\ FieldOf(obj, n).val.hi = high
                  /\ FieldOf(obj, n).val.hi \in 0 .. 65535
                  /\ FieldOf(obj, n).hi - FieldOf(obj, n).lo = 4
            /\ \A n \in {"in_online_session_flag", "not_alone_flag"} :
                  /\ FieldOf(obj, n).val = data.content.flag
                  /\ FieldOf(obj, n).val \in 0 .. 255
                  /\ FieldOf(obj, n).hi - FieldOf(obj, n).lo = 1
            /\ \A i \in IndexOf(obj, "total_deaths_count") + 1
                          .. IndexOf(obj, "unk_gamedataman_0x124_or_gamedataman_0x134") :
                  obj.fields[i].lo = obj.fields[i - 1].hi
            /\ last.hi - first.lo = 26

\* The death block has been read from bytes that are all FF: the signed
\* field is -1 and an unsigned one 2^32 - 1.
C19_Witness ==
    /\ HasField(obj, "unk_gamedataman_0x124_or_gamedataman_0x134")
    /\ data.content.word = <<255, 255, 255, 255>>
    /\ FieldOf(obj, "character_type").val = [lo |-> 65535, hi |-> -1]
    /\ FieldOf(obj, "total_deaths_count").val = [lo |-> 65535, hi |-> 65535]

\* A step that is a call of one of the detectors on a slot.
DetectorCall ==
    \E s \in Slots :
        \/ has_torrent_bug(s)
        \/ has_weather_corruption(s)
        \/ has_time_corruption(s)
        \/ is_empty(s)

\* The call before this one was op on slot s.
Preceded(s, op) == called # None /\ called.slot = s /\ called.op = op

\* C14: a call of has_torrent_bug, has_weather_corruption,
\* has_time_corruption or is_empty, whatever calls came before it, leaves
\* every field of both slots unchanged, and a detector called again right
\* after itself on the same slot returns the same answer.
C14_DetectorsPure ==
    [][DetectorCall =>
          /\ UNCHANGED <<obj, other, heap, out, pos, status>>
          /\ Preceded(called'.slot, called'.op) => called'.result = called.result]_vars

\* has_torrent_bug has answered true on a decoded slot whose mount has the
\* bug, and the mount is as it was decoded.
C14_Witness ==
    /\ called # None
    /\ called.op = "has_torrent_bug"
    /\ called.slot = "A"
    /\ called.result = TRUE
    /\ obj.version # 0
    /\ heap[obj.horse] = [hp |-> 0, state |-> "ACTIVE"]

\* C15: a call of fix_torrent_bug that follows a call of fix_torrent_bug
\* on the same slot changes nothing; after a call of fix_torrent_bug the
\* mount has not the bug, and has_torrent_bug called next returns false.
C15_FixIdempotent ==
    [][\A s \in Slots :
          /\ fix_torrent_bug(s) =>
                /\ ~HasBug(heap'[SlotOf(s).horse])
                /\ Preceded(s, "fix_torrent_bug") => UNCHANGED <<obj, other, heap>>
          /\ (has_torrent_bug(s) /\ Preceded(s, "fix_torrent_bug")) =>
                called'.result = FALSE]_vars

\* fix_torrent_bug has been called on a decoded slot whose mount had the
\* bug: the state was reset and the HP kept.
C15_Witness ==
    /\ called # None
    /\ called.op = "fix_torrent_bug"
    /\ called.slot = "A"
    /\ data.content.horse = [hp |-> 0, state |-> "ACTIVE"]
    /\ obj.version # 0
    /\ HasField(obj, "player_data_hash")
    /\ heap[obj.horse] = [hp |-> 0, state |-> "DEAD"]

\* C16: the slots of two calls of read() share no mount object, and after
\* any interleaving of detector and fixer calls on them each slot's mount
\* is what it would be had only its own calls been made; so for a slot
\* left at its defaults.
C16_SlotIndependence ==
    /\ heap[obj.horse] = alone.A
    /\ other # None =>
          /\ other.horse # obj.horse
          /\ heap[other.horse] = alone.B

\* The mount of slot A has been repaired while slot B, an empty slot left
\* at its defaults, was there.
C16_Witness ==
    /\ other # None
    /\ other.version = 0
    /\ called # None
    /\ called.op = "fix_torrent_bug"
    /\ called.slot = "A"
    /\ obj.version # 0
    /\ heap[obj.horse] # data.content.horse
    /\ heap[other.horse] = DefaultRideGameData

\* C21: the tail of a non-empty slot is read with the computed length
\* slot_size minus the bytes consumed, never as whatever the stream still
\* holds: in a stream that holds two slots the tail ends at the slot
\* boundary, and a slot whose fields do not leave that length is not
\* returned.
C21_ExplicitTail ==
    (Returned /\ obj.version # 0 /\ slot_size = SLOT_SIZE /\ Avail = 2 * slot_size)
        => /\ RestLen(obj) = slot_size - FieldBytes(obj)
           /\ pos <= data_start_offset + slot_size

\* C22: when the version is 0, decode assigns no field but version and
\* rest: the returned slot is the constructed one but for its rest, with
\* its own default mount, no field read and both optional fields absent;
\* and is_empty answers true exactly for a slot whose version is 0.
C22_EmptySlotFrame ==
    /\ (Returned /\ U32LE(data.verBytes) = 0) =>
          /\ obj.version = 0
          /\ obj = [NewUserDataX(Alloc(<<>>)) EXCEPT !.rest = obj.rest]
          /\ ~HasField(obj, "gaitem_map") /\ ~HasField(obj, "sp_effects")
          /\ ~HasField(obj, "temp_spawn_point_entity_id")
          /\ ~HasField(obj, "game_man_0xcb3")
          /\ heap[obj.horse] = DefaultRideGameData
          /\ pc = 1
    /\ (called # None /\ called.op = "is_empty") =>
          (called.result <=> SlotOf(called.slot).version = 0)
    /\ Returned => (obj.version = 0 <=> U32LE(data.verBytes) = 0)

\* is_empty has answered true on an empty slot decoded by the newer
\* decoder, whose rest holds the slot's other bytes.
C22_Witness ==
    /\ called # None
    /\ called.op = "is_empty"
    /\ called.slot = "A"
    /\ called.result = TRUE
    /\ decoder = "er_parser"
    /\ obj.fields = <<>>
    /\ RestLen(obj) = SLOT_SIZE - 4

\* C23: a call of fix_torrent_bug on a slot changes nothing but that
\* slot's mount record: the slot's version, fields and rest, the other
\* slot and every other mount object stay as they are, and within the
\* mount record the HP stays as it is.
C23_MountFixerFrame ==
    [][\A s \in Slots :
          fix_torrent_bug(s) =>
              /\ UNCHANGED <<obj, other, out, pos, status, data>>
              /\ DOMAIN heap' = DOMAIN heap
              /\ \A r \in DOMAIN heap :
                    r # SlotOf(s).horse => heap'[r] = heap[r]
              /\ heap'[SlotOf(s).horse].hp = heap[SlotOf(s).horse].hp]_vars

\* fix_torrent_bug has repaired the mount of slot B, which had the bug,
\* and slot A's mount is as it was decoded.
C23_Witness ==
    /\ called # None
    /\ called.op = "fix_torrent_bug"
    /\ called.slot = "B"
    /\ other.version # 0
    /\ heap[other.horse] = [hp |-> 0, state |-> "DEAD"]
    /\ obj.version # 0
    /\ heap[obj.horse] = data.content.horse

\* C24: whenever decode of a non-empty slot returns a slot, unk0x8 holds
\* 8 bytes, unk0x10 holds 16 and event_flags holds 0x1BF99F, although the
\* three are read without a length check.
C24_RawRunWidths ==
    (Returned /\ obj.version # 0) =>
        /\ HasField(obj, "unk0x8") /\ HasField(obj, "unk0x10")
        /\ HasField(obj, "event_flags")
        /\ FieldOf(obj, "unk0x8").hi - FieldOf(obj, "unk0x8").lo = 8
        /\ FieldOf(obj, "unk0x10").hi - FieldOf(obj, "unk0x10").lo = 16
        /\ FieldOf(obj, "event_flags").hi - FieldOf(obj, "event_flags").lo = 1833375

\* A non-empty slot has been returned from a stream that ends inside the
\* tail, one byte short of the slot.
C24_Witness ==
    /\ status = "returned"
    /\ obj.version # 0
    /\ decoder = "er_parser"
    /\ Avail = slot_size - 1
    /\ FieldOf(obj, "event_flags").hi - FieldOf(obj, "event_flags").lo = EVENT_FLAGS_SIZE

\* The bytes the fields of a non-empty slot take, the version included,
\* by the layout alone.
LayoutBytes ==
    ConsumedThrough(Program(decoder), Len(Program(decoder)),
                    U32LE(data.verBytes), data.regionCount, decoder)

\* How far from its entry position a decode that returns leaves the
\* stream, by the stream's contents from that position and slot_size.
ExpectedEnd ==
    LET taken == IF U32LE(data.verBytes) = 0 THEN 4 ELSE LayoutBytes
    IN  IF decoder = "er_parser"
        THEN IF slot_size - taken > 0 THEN Min(Avail, slot_size) ELSE taken
        ELSE IF U32LE(data.verBytes) = 0 THEN taken ELSE Avail

\* C25: the slot a decode returns and the bytes it consumes are a function
\* of the stream's contents from the entry position and of slot_size:
\* whatever is_ps and slot_start_offset are, the fields lie one after the
\* other from four bytes after the entry position, take the bytes the
\* layout gives them, the tail starts where they end, and the stream is
\* left where the contents and slot_size alone put it.
C25_ArgumentIndependence ==
    Returned =>
        /\ pos - data_start_offset = ExpectedEnd
        /\ obj.version = U32LE(data.verBytes)
        /\ obj.version # 0 =>
              /\ obj.fields[1].lo - data_start_offset = 4
              /\ \A i \in 2 .. Len(obj.fields) :
                    obj.fields[i].lo = obj.fields[i - 1].hi
              /\ FieldBytes(obj) = LayoutBytes
        /\ RestLen(obj) > 0 =>
              /\ obj.rest.lo - data_start_offset =
                    (IF obj.version = 0 THEN 4 ELSE LayoutBytes)
              /\ obj.rest.hi - data_start_offset = ExpectedEnd
        /\ RestLen(obj) = 0 =>
              (\/ decoder = "legacy"
               \/ ExpectedEnd = (IF obj.version = 0 THEN 4 ELSE LayoutBytes))

\* A non-empty slot has been returned, with its tail, by a call whose
\* slot_start_offset is not the stream position at entry.
C25_Witness ==
    /\ status = "returned"
    /\ decoder = "er_parser"
    /\ args.slot_start_offset # data_start_offset
    /\ obj.version # 0
    /\ RestLen(obj) > 0

Next ==
    \/ ReadVersion
    \/ ReadRecord
    \/ ReadUnpack
    \/ ReadRaw
    \/ ReadGaitems
    \/ ReadList
    \/ ReadInventory
    \/ ReadGestures
    \/ ReadRegions
    \/ PeekRead
    \/ PeekSeek
    \/ ReadOptional
    \/ ReadRest
    \/ Encode
    \/ DecodeOther
    \/ \E s \in Slots : has_torrent_bug(s)
    \/ \E s \in Slots : has_weather_corruption(s)
    \/ \E s \in Slots : has_time_corruption(s)
    \/ \E s \in Slots : is_empty(s)
    \/ \E s \in Slots : fix_torrent_bug(s)
    \/ \E s \in Slots : get_character_name(s)

Spec == Init /\ [][Next]_vars

----------------------------------------------------------------------------
(* Character names: one whole slot decoded by either decoder, its stored   *)
(* name any sequence of up to MaxNameLen of the code points below, and     *)
(* get_character_name called on what read() returned.                      *)

MaxNameLen == 2

\* "a", space, tab, newline and NUL: a printable character, the three
\* kinds of whitespace the filter keeps, and a non-printable character.
NameChars == {97, 32, 9, 10, 0}

StoredNames == UNION {[1 .. n -> NameChars] : n \in 0 .. MaxNameLen}

NameInit ==
    /\ decoder \in Decoders
    /\ slot_size = SLOT_SIZE
    /\ pos \in Starts
    /\ data_start_offset = pos
    /\ \E vb \in VersionBytes, rc \in 0 .. MaxRegions, n \in StoredNames :
         data = [size |-> pos + SLOT_SIZE, verBytes |-> vb, regionCount |-> rc,
                 content |-> [NominalContent EXCEPT !.name = n]]
    /\ args = NominalArgs(pos)
    /\ pc = 1 /\ status = "reading"
    /\ obj = NewUserDataX(Alloc(<<>>))
    /\ heap = Store(<<>>, Alloc(<<>>), DefaultRideGameData)
    /\ debug_pos = 0 /\ warned = FALSE /\ out = None
    /\ other = None
    /\ alone = [A |-> DefaultRideGameData, B |-> None]
    /\ called = None

NameNext ==
    \/ ReadVersion
    \/ ReadRecord
    \/ ReadUnpack
    \/ ReadRaw
    \/ ReadGaitems
    \/ ReadList
    \/ ReadInventory
    \/ ReadGestures
    \/ ReadRegions
    \/ PeekRead
    \/ PeekSeek
    \/ ReadOptional
    \/ ReadRest
    \/ get_character_name("A")

NameSpec == NameInit /\ [][NameNext]_vars

\* C26: get_character_name never returns an empty string nor a character
\* that is neither printable nor a space, a tab or a newline: for every
\* name read() stored the result is the stripped cleaned name with at least
\* one character, or "Unknown".
C26_NameNeverEmpty ==
    (called # None /\ called.op = "get_character_name"
        /\ SlotOf(called.slot).version # 0) =>
        LET result == called.result
            name == SlotOf(called.slot).character_name
        IN  /\ result # <<>>
            /\ \A i \in 1 .. Len(result) :
                  IsPrintable(result[i]) \/ result[i] \in {32, 9, 10}
            /\ result \in {Strip(Cleaned(name)), Unknown}

====
